---- MODULE Spec2Model ----
(***************************************************************************)
(* Model of react-modal-back-button: the two hooks useModalToggle and      *)
(* useModalBackButton, the browser session history they annotate, and the  *)
(* 'rmbb:modal-open' broadcast between useModalToggle instances.           *)
(*                                                                         *)
(* A hook instance ("session") is a React component state: its isOpen      *)
(* value, its three refs, and the values its effects last ran with         *)
(* (rendered).  A call of open/close/toggle only sets isOpen; the effects  *)
(* run in a later step (Commit), as React runs them.  history.back() is    *)
(* asynchronous: the call queues a traversal, and the traversal and its    *)
(* popstate event happen in a later step (DeliverBack).                    *)
(***************************************************************************)
EXTENDS Integers, Sequences, FiniteSets, TLC

\* ------------------------------------------------------------------ bounds
\* Entries the history holds before any modal opens.
BaseDepth == 2
\* Longest history the model explores (pushState is not taken beyond it).
MaxHist == 5
\* Most history.back() calls queued and not yet traversed.
MaxPending == 2

Sessions == {"A", "B"}

VARIABLES
  hist,                  \* the session history: a sequence of entries
  pos,                   \* index of the current entry (history.state = hist[pos])
  backQueue,             \* issuers of history.back() calls not yet traversed
  canUseBrowser,         \* window and history exist
  mounted,               \* the hook instance is mounted
  opts,                  \* the options each instance is called with
  isOpen,                \* the boolean state holder's value
  rendered,              \* the values the effects last ran with
  hasHistoryEntry,       \* ref
  shouldIgnorePopState,  \* ref
  closedByBackButton,    \* ref
  lastAct,               \* (ghost) the step just taken
  histCalls,             \* (ghost) pushState / back calls made by that step
  setCalls,              \* (ghost) state holder calls made by that step's handlers
  forwarded,             \* (ghost) the user has gone forward onto a modal's entry
  watch,                 \* (ghost) which scenario the observer follows
  sc                     \* (ghost) the scenario observer

vars == <<hist, pos, backQueue, canUseBrowser, mounted, opts, isOpen, rendered,
          hasHistoryEntry, shouldIgnorePopState, closedByBackButton,
          lastAct, histCalls, setCalls, forwarded, watch, sc>>

\* ------------------------------------------------------------ history state
\* An entry's payload: unrelated application data (app) and the reserved
\* __rmbb record, which is absent, the list form {v, keys, ts} or the single
\* id form {v, key, ts}.  ts (Date.now()) is never read and is left out.
\* owner is a ghost field: who pushed the entry.
AppEntry(n) == [app |-> n, kind |-> "absent", keys |-> <<>>, key |-> "", owner |-> "app"]

\* history.state is null: (history.state ?? {}) has no field at all.
NullEntry == [app |-> 0, kind |-> "absent", keys |-> <<>>, key |-> "", owner |-> "app"]

\* An entry of the application whose __rmbb record does not have the shape of
\* HistoryStateShape: its keys is a value that is not iterable (a number, a
\* plain object).  The payload is cast, never validated.
MalformedEntry(n) ==
  [app |-> n, kind |-> "malformed", keys |-> <<>>, key |-> "", owner |-> "app"]

\* currentState.__rmbb?.keys ?? []
CurrentKeys(e) == IF e.kind = "keys" THEN e.keys ELSE <<>>

Includes(seq, x) == \E i \in 1..Len(seq) : seq[i] = x

\* nextState of useModalToggle: {...currentState, __rmbb: {v: 1, keys: [...currentKeys, modalId]}}
NextStateToggle(cur, modalId) ==
  [app |-> cur.app, kind |-> "keys", keys |-> Append(CurrentKeys(cur), modalId),
   key |-> "", owner |-> modalId]

\* nextState of useModalBackButton: {...currentState, __rmbb: {v: 1, key: modalId}}
NextStateBackButton(cur, modalId) ==
  [app |-> cur.app, kind |-> "key", keys |-> <<>>, key |-> modalId, owner |-> modalId]

NextState(form, cur, modalId) ==
  IF form = "toggle" THEN NextStateToggle(cur, modalId)
  ELSE NextStateBackButton(cur, modalId)

\* [...currentKeys, modalId] throws a TypeError when currentKeys is not
\* iterable; useModalBackButton does not read the current keys.
SpreadThrows(form, cur) == form = "toggle" /\ cur.kind = "malformed"

\* ------------------------------------------------------------ the options
DefaultOptions ==
  [form |-> "toggle", enabled |-> TRUE, pushStateOnOpen |-> TRUE,
   cleanupOnClose |-> TRUE, autoCloseOthersOnOpen |-> FALSE]

\* useModalBackButton has no autoCloseOthersOnOpen option.
OptionSets ==
  {o \in [form : {"toggle", "backButton"}, enabled : BOOLEAN, pushStateOnOpen : BOOLEAN,
          cleanupOnClose : BOOLEAN, autoCloseOthersOnOpen : BOOLEAN] :
     o.form = "backButton" => ~o.autoCloseOthersOnOpen}

\* The values the effects of instance s depend on when it renders with
\* options o.
DepsOf(s, o) ==
  [isOpen |-> isOpen[s], enabled |-> o.enabled,
   pushStateOnOpen |-> o.pushStateOnOpen,
   cleanupOnClose |-> o.cleanupOnClose,
   autoCloseOthersOnOpen |-> o.autoCloseOthersOnOpen]

\* The values the effects of instance s depend on, as of now.
Deps(s) == DepsOf(s, opts[s])

\* A faulty variant: the popstate listener is registered even when enabled is false.
Listening_IgnoresEnabled(s) == mounted[s] /\ canUseBrowser

\* The popstate listener is registered (effect guard: canUseBrowser && enabled).
Listening(s) == mounted[s] /\ canUseBrowser /\ rendered[s].enabled

\* The 'rmbb:modal-open' listener is registered.
ListeningOpen(s) ==
  /\ mounted[s] /\ canUseBrowser /\ opts[s].form = "toggle"
  /\ rendered[s].enabled /\ rendered[s].autoCloseOthersOnOpen

\* ------------------------------------------------------------ the handlers
\* handlePopState: what one instance does with a popstate event.  open is the
\* isOpen its closure holds (useModalToggle) or currentIsOpen.current
\* (useModalBackButton); keys are those of the new current entry.
HandlePopStateToggle(ignore, open, has, keys, modalId) ==
  IF ignore THEN [ignore |-> FALSE, close |-> FALSE]
  ELSE IF ~open \/ ~has THEN [ignore |-> FALSE, close |-> FALSE]
  ELSE [ignore |-> FALSE, close |-> ~Includes(keys, modalId)]

\* A faulty variant: the handler does not look at currentIsOpen.
HandlePopStateBackButton_NoOpenCheck(ignore, open) ==
  IF ignore THEN [ignore |-> FALSE, close |-> FALSE]
  ELSE [ignore |-> FALSE, close |-> TRUE]

HandlePopStateBackButton(ignore, open) ==
  IF ignore THEN [ignore |-> FALSE, close |-> FALSE]
  ELSE [ignore |-> FALSE, close |-> open]

HandlePopState(form, ignore, open, has, keys, modalId) ==
  IF form = "toggle" THEN HandlePopStateToggle(ignore, open, has, keys, modalId)
  ELSE HandlePopStateBackButton(ignore, open)

\* A faulty variant: a receiver closes itself whatever the id.
HandleExternalOpen_AnyId(detailId, modalId) == TRUE

\* handleExternalOpen: a receiver closes itself iff the id is not its own.
HandleExternalOpen(detailId, modalId) == detailId # modalId

\* open() broadcasts iff autoCloseOthersOnOpen && canUseBrowser && enabled.
Broadcasts(s) ==
  /\ opts[s].form = "toggle"
  /\ rendered[s].autoCloseOthersOnOpen /\ canUseBrowser /\ rendered[s].enabled

\* A faulty variant: the push does not record that the instance owns an entry.
SyncEffect_ForgetsEntry(open, pushStateOnOpen, cleanupOnClose, has, closedBy, ignore) ==
  IF open
  THEN IF ~pushStateOnOpen \/ has
       THEN [has |-> FALSE, closedBy |-> closedBy, ignore |-> ignore, op |-> "none"]
       ELSE [has |-> FALSE, closedBy |-> closedBy, ignore |-> ignore, op |-> "pushState"]
  ELSE IF cleanupOnClose /\ has
       THEN IF closedBy
            THEN [has |-> FALSE, closedBy |-> FALSE, ignore |-> ignore, op |-> "none"]
            ELSE [has |-> FALSE, closedBy |-> closedBy, ignore |-> TRUE, op |-> "back"]
       ELSE [has |-> FALSE, closedBy |-> FALSE, ignore |-> ignore, op |-> "none"]

\* A faulty variant: the open branch does not look at pushStateOnOpen.
SyncEffect_IgnoresPushOption(open, pushStateOnOpen, cleanupOnClose, has, closedBy, ignore) ==
  IF open
  THEN IF has
       THEN [has |-> FALSE, closedBy |-> closedBy, ignore |-> ignore, op |-> "none"]
       ELSE [has |-> TRUE, closedBy |-> closedBy, ignore |-> ignore, op |-> "pushState"]
  ELSE IF cleanupOnClose /\ has
       THEN IF closedBy
            THEN [has |-> FALSE, closedBy |-> FALSE, ignore |-> ignore, op |-> "none"]
            ELSE [has |-> FALSE, closedBy |-> closedBy, ignore |-> TRUE, op |-> "back"]
       ELSE [has |-> FALSE, closedBy |-> FALSE, ignore |-> ignore, op |-> "none"]

\* A faulty variant: the close branch does not look at cleanupOnClose.
SyncEffect_AlwaysCleans(open, pushStateOnOpen, cleanupOnClose, has, closedBy, ignore) ==
  IF open
  THEN IF ~pushStateOnOpen \/ has
       THEN [has |-> FALSE, closedBy |-> closedBy, ignore |-> ignore, op |-> "none"]
       ELSE [has |-> TRUE, closedBy |-> closedBy, ignore |-> ignore, op |-> "pushState"]
  ELSE IF has
       THEN IF closedBy
            THEN [has |-> FALSE, closedBy |-> FALSE, ignore |-> ignore, op |-> "none"]
            ELSE [has |-> FALSE, closedBy |-> closedBy, ignore |-> TRUE, op |-> "back"]
       ELSE [has |-> FALSE, closedBy |-> FALSE, ignore |-> ignore, op |-> "none"]

\* A faulty variant: the open branch pushes whether or not an entry is owned.
SyncEffect_PushesAgain(open, pushStateOnOpen, cleanupOnClose, has, closedBy, ignore) ==
  IF open
  THEN IF ~pushStateOnOpen
       THEN [has |-> FALSE, closedBy |-> closedBy, ignore |-> ignore, op |-> "none"]
       ELSE [has |-> TRUE, closedBy |-> closedBy, ignore |-> ignore, op |-> "pushState"]
  ELSE IF cleanupOnClose /\ has
       THEN IF closedBy
            THEN [has |-> FALSE, closedBy |-> FALSE, ignore |-> ignore, op |-> "none"]
            ELSE [has |-> FALSE, closedBy |-> closedBy, ignore |-> TRUE, op |-> "back"]
       ELSE [has |-> FALSE, closedBy |-> FALSE, ignore |-> ignore, op |-> "none"]

\* A faulty variant: a programmatic close forgets to call history.back().
SyncEffect_NoPop(open, pushStateOnOpen, cleanupOnClose, has, closedBy, ignore) ==
  IF open
  THEN IF ~pushStateOnOpen \/ has
       THEN [has |-> FALSE, closedBy |-> closedBy, ignore |-> ignore, op |-> "none"]
       ELSE [has |-> TRUE, closedBy |-> closedBy, ignore |-> ignore, op |-> "pushState"]
  ELSE [has |-> FALSE, closedBy |-> FALSE, ignore |-> ignore, op |-> "none"]

\* The history synchronisation effect (same body in both hooks): from the
\* values it runs with, the new refs and the history call it makes.
SyncEffect(open, pushStateOnOpen, cleanupOnClose, has, closedBy, ignore) ==
  IF open
  THEN IF ~pushStateOnOpen \/ has
       THEN [has |-> FALSE, closedBy |-> closedBy, ignore |-> ignore, op |-> "none"]
       ELSE [has |-> TRUE, closedBy |-> closedBy, ignore |-> ignore, op |-> "pushState"]
  ELSE IF cleanupOnClose /\ has
       THEN IF closedBy
            THEN [has |-> FALSE, closedBy |-> FALSE, ignore |-> ignore, op |-> "none"]
            ELSE [has |-> FALSE, closedBy |-> closedBy, ignore |-> TRUE, op |-> "back"]
       ELSE [has |-> FALSE, closedBy |-> FALSE, ignore |-> ignore, op |-> "none"]

\* ------------------------------------------------------------ ghost state
NoSession == "-"

\* Every mounted instance's effects have run with the current values and no
\* history.back() is waiting to be traversed.
NothingPending ==
  /\ backQueue = <<>>
  /\ \A s \in Sessions : mounted[s] => Deps(s) = rendered[s]

IsDefaultOpts(o) == o.enabled /\ o.pushStateOnOpen /\ o.cleanupOnClose

IsDefault(s) == IsDefaultOpts(opts[s])

ScIdle == [st |-> 0, who |-> NoSession, pos0 |-> 0]

\* Scenario "c3": open() and then close() of one instance with default options
\* that starts closed with no entry, each followed by its effects, then the
\* traversal of the history.back().  st counts the steps taken so far.
ScStepC3(name, s) ==
  IF /\ name = "open" /\ sc.st \in {0, 5} /\ canUseBrowser /\ IsDefault(s)
     /\ NothingPending /\ ~isOpen[s] /\ ~hasHistoryEntry[s]
  THEN [st |-> 1, who |-> s, pos0 |-> pos]
  ELSE IF sc.st = 1 /\ name = "commit" /\ s = sc.who THEN [sc EXCEPT !.st = 2]
  ELSE IF sc.st = 2 /\ name = "close" /\ s = sc.who THEN [sc EXCEPT !.st = 3]
  ELSE IF sc.st = 3 /\ name = "commit" /\ s = sc.who THEN [sc EXCEPT !.st = 4]
  ELSE IF sc.st = 4 /\ name = "deliverBack" THEN [sc EXCEPT !.st = 5]
  ELSE ScIdle

\* Scenario "c4": A.open() from the state where both instances are closed
\* with no entry, its effects (st = 1), then B.open() once nothing is pending
\* (st = 2), then only effects and traversals.
ScStepC4(name, s) ==
  IF /\ name = "open" /\ s = "A" /\ sc.st = 0 /\ NothingPending
     /\ \A t \in Sessions : ~isOpen[t] /\ ~hasHistoryEntry[t]
  THEN [st |-> 1, who |-> "A", pos0 |-> pos]
  ELSE IF sc.st = 1 /\ name = "commit" THEN sc
  ELSE IF sc.st = 1 /\ name = "open" /\ s = "B" /\ NothingPending
  THEN [sc EXCEPT !.st = 2]
  ELSE IF sc.st = 2 /\ name \in {"commit", "deliverBack"} THEN sc
  ELSE ScIdle

Ghost(name, s) ==
  /\ lastAct' = [name |-> name, s |-> s]
  /\ sc' = IF watch = "c3" THEN ScStepC3(name, s)
           ELSE IF watch = "c4" THEN ScStepC4(name, s)
           ELSE sc
  /\ watch' = watch

\* ------------------------------------------------------------ the operations
Config == <<canUseBrowser, mounted, opts>>
Refs == <<hasHistoryEntry, shouldIgnorePopState, closedByBackButton>>
History == <<hist, pos, backQueue>>

\* open(): setIsOpen(true), then the broadcast, which every registered
\* handleExternalOpen handles before open() returns.  For useModalBackButton
\* this is the caller's own holder being set to true.
Open(s) ==
  /\ mounted[s]
  /\ LET closes == {t \in Sessions : Broadcasts(s) /\ ListeningOpen(t)
                                       /\ HandleExternalOpen(s, t)}
     IN /\ isOpen' = [t \in Sessions |->
                        IF t \in closes THEN FALSE ELSE IF t = s THEN TRUE ELSE isOpen[t]]
        /\ setCalls' = {[by |-> t, val |-> FALSE] : t \in closes}
  /\ histCalls' = {}
  /\ UNCHANGED <<History, Config, Refs, rendered, forwarded>>
  /\ Ghost("open", s)

\* close(): setIsOpen(false).
Close(s) ==
  /\ mounted[s]
  /\ isOpen' = [isOpen EXCEPT ![s] = FALSE]
  /\ setCalls' = {} /\ histCalls' = {}
  /\ UNCHANGED <<History, Config, Refs, rendered, forwarded>>
  /\ Ghost("close", s)

\* toggle(): setIsOpen(prev => !prev); useModalToggle only.
Toggle(s) ==
  /\ mounted[s] /\ opts[s].form = "toggle"
  /\ isOpen' = [isOpen EXCEPT ![s] = ~isOpen[s]]
  /\ setCalls' = {} /\ histCalls' = {}
  /\ UNCHANGED <<History, Config, Refs, rendered, forwarded>>
  /\ Ghost("toggle", s)

\* A faulty variant: the sync effect has no enabled guard.
SyncRunsWith_IgnoresEnabled(s, o) ==
  /\ canUseBrowser
  /\ \/ rendered[s].isOpen # isOpen[s]
     \/ rendered[s].enabled # o.enabled
     \/ rendered[s].pushStateOnOpen # o.pushStateOnOpen
     \/ rendered[s].cleanupOnClose # o.cleanupOnClose

\* The history synchronisation effect runs when one of its dependencies
\* [canUseBrowser, enabled, isOpen, pushStateOnOpen, cleanupOnClose, modalId]
\* changed, and does nothing unless canUseBrowser && enabled.
SyncRunsWith(s, o) ==
  /\ canUseBrowser /\ o.enabled
  /\ \/ rendered[s].isOpen # isOpen[s]
     \/ rendered[s].enabled # o.enabled
     \/ rendered[s].pushStateOnOpen # o.pushStateOnOpen
     \/ rendered[s].cleanupOnClose # o.cleanupOnClose

SyncRuns(s) == SyncRunsWith(s, opts[s])

\* React re-renders instance s and runs its effects with the new values: the
\* listeners are registered anew and the synchronisation effect runs.
EffectsRun(s, o) ==
  /\ rendered' = [rendered EXCEPT ![s] = DepsOf(s, o)]
  /\ IF SyncRunsWith(s, o)
     THEN LET r == SyncEffect(isOpen[s], o.pushStateOnOpen, o.cleanupOnClose,
                              hasHistoryEntry[s], closedByBackButton[s],
                              shouldIgnorePopState[s])
          IN IF r.op = "pushState" /\ SpreadThrows(o.form, hist[pos])
             THEN \* the effect throws before pushState and before the flag is
                  \* set; React unmounts the component whose effect threw
                  /\ UNCHANGED <<History, Refs>>
                  /\ histCalls' = {[op |-> "throws", by |-> s]}
                  /\ mounted' = [mounted EXCEPT ![s] = FALSE]
             ELSE /\ hasHistoryEntry' = [hasHistoryEntry EXCEPT ![s] = r.has]
                  /\ closedByBackButton' = [closedByBackButton EXCEPT ![s] = r.closedBy]
                  /\ shouldIgnorePopState' = [shouldIgnorePopState EXCEPT ![s] = r.ignore]
                  /\ r.op = "pushState" => pos < MaxHist
                  /\ r.op = "back" => Len(backQueue) < MaxPending
                  /\ hist' = IF r.op = "pushState"
                             THEN Append(SubSeq(hist, 1, pos),
                                         NextState(o.form, hist[pos], s))
                             ELSE hist
                  /\ pos' = IF r.op = "pushState" THEN pos + 1 ELSE pos
                  /\ backQueue' = IF r.op = "back" THEN Append(backQueue, s) ELSE backQueue
                  /\ histCalls' = IF r.op = "none" THEN {} ELSE {[op |-> r.op, by |-> s]}
                  /\ UNCHANGED mounted
     ELSE /\ UNCHANGED <<History, Refs, mounted>>
          /\ histCalls' = {}
  /\ setCalls' = {}
  /\ UNCHANGED <<isOpen, forwarded>>

\* A state change is rendered: the effects run with the options unchanged.
Commit(s) ==
  /\ mounted[s] /\ Deps(s) # rendered[s]
  /\ EffectsRun(s, opts[s])
  /\ UNCHANGED <<canUseBrowser, opts>>
  /\ Ghost("commit", s)

\* The caller renders the hook with other values of enabled, pushStateOnOpen
\* or cleanupOnClose, the options both forms have (the form stays): the
\* effects whose dependencies changed run in that render's commit.
SetOptions(s) ==
  /\ mounted[s]
  /\ \E o \in OptionSets :
       /\ o # opts[s] /\ o.form = opts[s].form
       /\ o.autoCloseOthersOnOpen = opts[s].autoCloseOthersOnOpen
       /\ opts' = [opts EXCEPT ![s] = o]
       /\ EffectsRun(s, o)
  /\ UNCHANGED canUseBrowser
  /\ Ghost("setOptions", s)

\* A faulty variant: the cleanup pops the entry the instance still owns.
TeardownEffect_Pops(has, cleanupOnClose) ==
  IF has /\ cleanupOnClose THEN "back" ELSE "none"

\* What the effect cleanups do to the history when the hook unmounts: they
\* only call removeEventListener.
TeardownEffect(has, cleanupOnClose) == "none"

\* The hook is disposed: its effect cleanups run and its listeners are gone.
\* removeEventListener of a listener that is not registered does nothing, so
\* the step may repeat.
Unmount(s) ==
  /\ mounted' = [mounted EXCEPT ![s] = FALSE]
  /\ LET op == TeardownEffect(hasHistoryEntry[s], opts[s].cleanupOnClose)
     IN /\ op = "back" => Len(backQueue) < MaxPending
        /\ backQueue' = IF op = "back" THEN Append(backQueue, s) ELSE backQueue
        /\ histCalls' = IF op = "none" THEN {} ELSE {[op |-> op, by |-> s]}
  /\ setCalls' = {}
  /\ UNCHANGED <<hist, pos, canUseBrowser, opts, isOpen, rendered, Refs, forwarded>>
  /\ Ghost("unmount", s)

\* The popstate event at the new position p: every registered handlePopState
\* runs, each on its own instance's refs and holder.
PopState(p) ==
  LET res(t) == HandlePopState(opts[t].form, shouldIgnorePopState[t], rendered[t].isOpen,
                               hasHistoryEntry[t], CurrentKeys(hist[p]), t)
      \* currentKeys.includes is not a function when the keys are malformed:
      \* useModalToggle's handler throws before it closes
      closes == {t \in Sessions : /\ Listening(t) /\ res(t).close
                                  /\ ~SpreadThrows(opts[t].form, hist[p])}
  IN /\ shouldIgnorePopState' =
          [t \in Sessions |-> IF Listening(t) THEN res(t).ignore
                              ELSE shouldIgnorePopState[t]]
     /\ closedByBackButton' =
          [t \in Sessions |-> IF t \in closes THEN TRUE ELSE closedByBackButton[t]]
     /\ isOpen' = [t \in Sessions |-> IF t \in closes THEN FALSE ELSE isOpen[t]]
     /\ setCalls' = {[by |-> t, val |-> FALSE] : t \in closes}
     /\ pos' = p

\* A queued history.back() is traversed: one entry back, then popstate.  At
\* the first entry there is nowhere to go and no event.
DeliverBack ==
  /\ backQueue # <<>>
  /\ backQueue' = Tail(backQueue)
  /\ IF pos > 1
     THEN PopState(pos - 1)
     ELSE /\ UNCHANGED <<pos, shouldIgnorePopState, closedByBackButton, isOpen>>
          /\ setCalls' = {}
  /\ histCalls' = {}
  /\ UNCHANGED <<hist, Config, rendered, hasHistoryEntry, forwarded>>
  /\ Ghost("deliverBack", NoSession)

\* The user presses back.  Traversals are served in order, so the user's
\* comes after the queued programmatic ones.
UserBack ==
  /\ canUseBrowser /\ backQueue = <<>> /\ pos > 1
  /\ PopState(pos - 1)
  /\ histCalls' = {}
  /\ UNCHANGED <<hist, backQueue, Config, rendered, hasHistoryEntry, forwarded>>
  /\ Ghost("userBack", NoSession)

\* The user presses back and the browser queues the traversal behind the
\* pending ones: its popstate is dispatched later, by DeliverBack, and the
\* page runs in between.
User == "user"

UserBackPress ==
  /\ canUseBrowser /\ Len(backQueue) < MaxPending
  /\ backQueue' = Append(backQueue, User)
  /\ histCalls' = {} /\ setCalls' = {}
  /\ UNCHANGED <<hist, pos, Config, isOpen, rendered, Refs, forwarded>>
  /\ Ghost("userBackPress", NoSession)

\* The user presses forward.
UserForward ==
  /\ canUseBrowser /\ backQueue = <<>> /\ pos < Len(hist)
  /\ PopState(pos + 1)
  /\ forwarded' = (forwarded \/ hist[pos + 1].owner \in Sessions)
  /\ histCalls' = {}
  /\ UNCHANGED <<hist, backQueue, Config, rendered, hasHistoryEntry>>
  /\ Ghost("userForward", NoSession)

\* ------------------------------------------------------------ specifications
\* The state after the hooks' first render and effects: closed, refs false.
InitFrom(bases, cfgs, browsers, w) ==
  /\ hist \in bases
  /\ pos = BaseDepth
  /\ backQueue = <<>>
  /\ canUseBrowser \in browsers
  /\ \E c \in cfgs : mounted = c.mounted /\ opts = c.opts
  /\ isOpen = [s \in Sessions |-> FALSE]
  /\ rendered = [s \in Sessions |-> Deps(s)]
  /\ hasHistoryEntry = [s \in Sessions |-> FALSE]
  /\ shouldIgnorePopState = [s \in Sessions |-> FALSE]
  /\ closedByBackButton = [s \in Sessions |-> FALSE]
  /\ lastAct = [name |-> "init", s |-> NoSession]
  /\ histCalls = {} /\ setCalls = {}
  /\ forwarded = FALSE
  /\ watch = w
  /\ sc = ScIdle

\* The application's entries carry a payload without an __rmbb record.
InitWith(cfgs, browsers, w) ==
  InitFrom({[i \in 1..BaseDepth |-> AppEntry(i)]}, cfgs, browsers, w)

\* One instance, A, with every combination of options, in both forms.
OneSession ==
  {[mounted |-> [s \in Sessions |-> s = "A"],
    opts |-> [s \in Sessions |-> IF s = "A" THEN o ELSE DefaultOptions]] : o \in OptionSets}

\* One instance with pushStateOnOpen and cleanupOnClose, in both forms.
OneDefault ==
  {c \in OneSession : IsDefaultOpts(c.opts["A"])}

\* Two useModalToggle instances that both coordinate.
TwoCoordinated ==
  {[mounted |-> [s \in Sessions |-> TRUE],
    opts |-> [s \in Sessions |-> [DefaultOptions EXCEPT !.autoCloseOthersOnOpen = TRUE]]]}

Next ==
  \/ \E s \in Sessions : Open(s)
  \/ \E s \in Sessions : Close(s)
  \/ \E s \in Sessions : Toggle(s)
  \/ \E s \in Sessions : Commit(s)
  \/ DeliverBack
  \/ UserBack
  \/ UserForward

\* With the options changing between renders and the hook unmounting.
NextDyn ==
  \/ \E s \in Sessions : Open(s)
  \/ \E s \in Sessions : Close(s)
  \/ \E s \in Sessions : Toggle(s)
  \/ \E s \in Sessions : Commit(s)
  \/ \E s \in Sessions : SetOptions(s)
  \/ \E s \in Sessions : Unmount(s)
  \/ DeliverBack
  \/ UserBack
  \/ UserForward

\* open/close/toggle calls only: the user does not navigate.
NextCalls ==
  \/ \E s \in Sessions : Open(s)
  \/ \E s \in Sessions : Close(s)
  \/ \E s \in Sessions : Toggle(s)
  \/ \E s \in Sessions : Commit(s)
  \/ DeliverBack

\* open/close/toggle calls and back presses of the user whose traversal is
\* delivered with a delay.
NextRace ==
  \/ \E s \in Sessions : Open(s)
  \/ \E s \in Sessions : Close(s)
  \/ \E s \in Sessions : Toggle(s)
  \/ \E s \in Sessions : Commit(s)
  \/ DeliverBack
  \/ UserBackPress

\* Two instances of one form with distinct keys that do not coordinate.
TwoUncoordinated ==
  {[mounted |-> [s \in Sessions |-> TRUE],
    opts |-> [s \in Sessions |-> o]] : o \in {p \in OptionSets : IsDefaultOpts(p) /\ ~p.autoCloseOthersOnOpen}}

Init == InitWith(OneSession, BOOLEAN, "c3")
Spec == Init /\ [][Next]_vars

InitCalls == InitWith(OneDefault, {TRUE}, "c3")
SpecCalls == InitCalls /\ [][NextCalls]_vars

InitTwo == InitWith(TwoCoordinated, {TRUE}, "c4")
SpecTwo == InitTwo /\ [][Next]_vars

InitPair == InitWith(TwoUncoordinated, {TRUE}, "none")
SpecPair == InitPair /\ [][Next]_vars

\* One instance, in either form, that does not coordinate.
OneAlone ==
  {c \in OneSession : ~c.opts["A"].autoCloseOthersOnOpen}

InitDyn == InitWith(OneAlone, {TRUE}, "none")
SpecDyn == InitDyn /\ [][NextDyn]_vars

InitRace == InitWith(OneDefault, {TRUE}, "none")
SpecRace == InitRace /\ [][NextRace]_vars

\* Two useModalToggle instances, each enabled or not and coordinating or not.
TwoMixed ==
  {[mounted |-> [s \in Sessions |-> TRUE],
    opts |-> [s \in Sessions |->
                [DefaultOptions EXCEPT !.enabled = e[s], !.autoCloseOthersOnOpen = a[s]]]] :
     e \in [Sessions -> BOOLEAN], a \in [Sessions -> BOOLEAN]}

InitMixed == InitWith(TwoMixed, {TRUE}, "none")
SpecMixed == InitMixed /\ [][NextCalls]_vars

\* What the application or another library may have left as the payload of
\* its i-th entry: null, a payload without __rmbb, a marker of either form
\* naming another modal, or an __rmbb record that is not of the declared shape.
BasePayloads(i) ==
  {NullEntry, AppEntry(i), MalformedEntry(i),
   [AppEntry(i) EXCEPT !.kind = "keys", !.keys = <<"B">>],
   [AppEntry(i) EXCEPT !.kind = "key", !.key = "B"]}

BaseHistories ==
  {h \in [1..BaseDepth -> UNION {BasePayloads(i) : i \in 1..BaseDepth}] :
     \A i \in 1..BaseDepth : h[i] \in BasePayloads(i)}

InitMarker == InitFrom(BaseHistories, OneDefault, {TRUE}, "none")
SpecMarker == InitMarker /\ [][Next]_vars

\* ------------------------------------------------------------ properties
\* Indices of the entries at or below the current position that s pushed.
Owned(s) == {i \in 1..pos : hist[i].owner = s}

\* Number of history.back() calls of s still waiting to be traversed.
PendingBacks(s) == Cardinality({i \in 1..Len(backQueue) : backQueue[i] = s})

\* The hook has rendered closed: isOpen is false and its effects have run.
CommittedClosed(s) == ~isOpen[s] /\ ~rendered[s].isOpen

PopNames == {"userBack", "deliverBack"}

\* C1 (as claimed): an enabled instance that is open and owns the current
\* entry is closed by every back navigation that is not the echo of its own
\* history.back(), and the effects of that close call no history.back().
C1_BackCloses ==
  [][\A s \in Sessions :
       /\ ( /\ Listening(s) /\ isOpen[s] /\ rendered[s].isOpen
            /\ hasHistoryEntry[s] /\ hist[pos].owner = s
            /\ ~shouldIgnorePopState[s]
            /\ lastAct'.name = "userBack" )
          => (~isOpen'[s] /\ closedByBackButton'[s])
       /\ ( /\ Listening(s) /\ closedByBackButton[s] /\ ~isOpen[s]
            /\ lastAct' = [name |-> "commit", s |-> s] )
          => [op |-> "back", by |-> s] \notin histCalls'
    ]_vars

\* C2 (as claimed): with only open/close/toggle calls, pushStateOnOpen and
\* cleanupOnClose, at most one entry pushed by the instance is on the stack
\* (at or below the current position) at any time.
C2_AtMostOneEntry ==
  \A s \in Sessions :
    (mounted[s] /\ IsDefault(s) /\ opts[s].form = "toggle") => Cardinality(Owned(s)) <= 1

\* C2 (amended): not counting the entries whose history.back() is issued and
\* not yet traversed, the instance has 0 or 1 entries on the stack.
C2_AtMostOneEntryNotBeingPopped ==
  \A s \in Sessions :
    (mounted[s] /\ IsDefault(s) /\ opts[s].form = "toggle") =>
      Cardinality(Owned(s)) - PendingBacks(s) \in {0, 1}

\* C2 witness: a second entry was pushed while the pop of the first is pending.
C2_Witness ==
  /\ mounted["A"] /\ IsDefault("A") /\ opts["A"].form = "toggle"
  /\ Cardinality(Owned("A")) = 2 /\ PendingBacks("A") = 1 /\ hasHistoryEntry["A"]

\* C3: open() and then close() of an instance with default options that
\* starts closed with no entry: open()'s effects call pushState once and
\* nothing else, close()'s effects call history.back() once and nothing else,
\* and once the traversal is delivered hasHistoryEntry is false and the
\* history is at the position it had before open().
C3_OpenCloseNetZero ==
  /\ sc.st \in {1, 3, 5} => histCalls = {}
  /\ sc.st = 2 => /\ histCalls = {[op |-> "pushState", by |-> sc.who]}
                  /\ hasHistoryEntry[sc.who] /\ pos = sc.pos0 + 1
  /\ sc.st = 4 => /\ histCalls = {[op |-> "back", by |-> sc.who]}
                  /\ backQueue = <<sc.who>>
  /\ sc.st = 5 => /\ ~hasHistoryEntry[sc.who] /\ pos = sc.pos0
                  /\ ~shouldIgnorePopState[sc.who] /\ ~isOpen[sc.who]

\* C3 witness: the scenario ran to its end, the pop delivered.
C3_Witness ==
  /\ sc.st = 5 /\ sc.who = "A" /\ lastAct.name = "deliverBack"
  /\ Len(hist) = sc.pos0 + 1 /\ hist[pos + 1].owner = "A"

\* Entries at or below the current position that some instance pushed.
OwnedByAny == {i \in 1..pos : hist[i].owner \in Sessions}

\* C4 (as claimed): A and B both coordinate; A.open() is fully processed,
\* then B.open() is called; when every effect has run and every traversal is
\* delivered, A is closed, B is open and the one owned entry is B's.
C4_OnlyBOpen ==
  (sc.st = 2 /\ NothingPending) =>
    /\ ~isOpen["A"] /\ isOpen["B"]
    /\ ~hasHistoryEntry["A"] /\ hasHistoryEntry["B"]
    /\ \E i \in 1..pos : OwnedByAny = {i} /\ hist[i].owner = "B"

\* C5 (as claimed): of the enabled instances with autoCloseOthersOnOpen, at
\* most one is open at a time.
Coordinated(s) ==
  /\ mounted[s] /\ canUseBrowser /\ opts[s].form = "toggle"
  /\ opts[s].enabled /\ opts[s].autoCloseOthersOnOpen

C5_AtMostOneOpen ==
  \A s, t \in Sessions :
    (s # t /\ Coordinated(s) /\ Coordinated(t)) => ~(isOpen[s] /\ isOpen[t])

\* C6: a back navigation delivered to an instance that has rendered closed
\* makes it call neither its state holder nor pushState nor history.back(),
\* leaves nothing for its effects to do, and moves the history one entry back.
C6_ClosedIgnoresBack ==
  [][\A s \in Sessions :
       (mounted[s] /\ CommittedClosed(s) /\ lastAct'.name \in PopNames /\ pos > 1)
       => /\ \A c \in setCalls' : c.by # s
          /\ \A c \in histCalls' : c.by # s
          /\ isOpen'[s] = isOpen[s] /\ rendered'[s] = rendered[s]
          /\ hasHistoryEntry'[s] = hasHistoryEntry[s]
          /\ closedByBackButton'[s] = closedByBackButton[s]
          /\ pos' = pos - 1
    ]_vars

\* C6 witness: the modal was opened and closed by a first back press, and a
\* second back press has gone below the page the modal was opened on.
C6_Witness ==
  /\ Listening("A") /\ CommittedClosed("A") /\ lastAct.name = "userBack"
  /\ pos < BaseDepth /\ Len(hist) > BaseDepth /\ hist[BaseDepth + 1].owner = "A"
  /\ setCalls = {}

\* The history feature of s is off: enabled is false or there is no browser.
Inert(s) == mounted[s] /\ (~opts[s].enabled \/ ~canUseBrowser)

\* C7: with enabled=false or without a browser, isOpen is a plain boolean
\* (open sets it, close clears it, toggle negates it, nothing else changes
\* it), the instance calls neither pushState nor history.back(), and its refs
\* never change.
C7_DisabledIsPlainState ==
  [][\A s \in Sessions :
       Inert(s) =>
         /\ lastAct' = [name |-> "open", s |-> s] => isOpen'[s]
         /\ lastAct' = [name |-> "close", s |-> s] => ~isOpen'[s]
         /\ lastAct' = [name |-> "toggle", s |-> s] => isOpen'[s] = ~isOpen[s]
         /\ lastAct'.s # s => isOpen'[s] = isOpen[s]
         /\ lastAct'.name = "commit" => isOpen'[s] = isOpen[s]
         /\ \A c \in histCalls' : c.by # s
         /\ \A c \in setCalls' : c.by # s
         /\ hasHistoryEntry'[s] = FALSE
         /\ shouldIgnorePopState'[s] = FALSE
         /\ closedByBackButton'[s] = FALSE
         /\ \A i \in 1..Len(hist') : hist'[i].owner # s
    ]_vars

\* C7 witness: a disabled instance is open and stayed open over a back press.
C7_Witness ==
  /\ Inert("A") /\ canUseBrowser /\ isOpen["A"] /\ rendered["A"].isOpen
  /\ lastAct.name = "userBack"

\* C8: with pushStateOnOpen=false the instance never calls pushState or
\* history.back(), hasHistoryEntry stays false and no entry is its own.
C8_NoPushNoHistory ==
  \A s \in Sessions :
    (mounted[s] /\ ~opts[s].pushStateOnOpen) =>
      /\ \A c \in histCalls : c.by # s
      /\ ~Includes(backQueue, s)
      /\ ~hasHistoryEntry[s]
      /\ \A i \in 1..Len(hist) : hist[i].owner # s

\* C8 witness: the effects of an open() ran with pushStateOnOpen=false.
C8_Witness ==
  /\ Listening("A") /\ ~opts["A"].pushStateOnOpen
  /\ isOpen["A"] /\ rendered["A"].isOpen /\ lastAct = [name |-> "commit", s |-> "A"]

\* C9: with cleanupOnClose=false the instance never calls history.back(),
\* and the effects of a close transition leave the history as it is and
\* change only hasHistoryEntry and closedByBackButton, which they clear.
C9_NoCleanupNoPop ==
  [][\A s \in Sessions :
       (mounted[s] /\ ~opts[s].cleanupOnClose) =>
         /\ [op |-> "back", by |-> s] \notin histCalls'
         /\ ~Includes(backQueue', s)
         /\ ( /\ lastAct' = [name |-> "commit", s |-> s]
              /\ Listening(s) /\ rendered[s].isOpen /\ ~isOpen[s] )
            => /\ hist' = hist /\ pos' = pos /\ backQueue' = backQueue
               /\ ~hasHistoryEntry'[s] /\ ~closedByBackButton'[s]
               /\ shouldIgnorePopState' = shouldIgnorePopState
               /\ isOpen' = isOpen
    ]_vars

\* C9 witness: a programmatic close whose effects have run, the entry the
\* instance pushed still the current one.
C9_Witness ==
  /\ Listening("A") /\ ~opts["A"].cleanupOnClose
  /\ lastAct = [name |-> "commit", s |-> "A"] /\ CommittedClosed("A")
  /\ hist[pos].owner = "A" /\ ~hasHistoryEntry["A"] /\ ~closedByBackButton["A"]

\* C10 (as claimed): with default options, whenever the instance is closed
\* and nothing is pending, no entry at or below the current position is one
\* it pushed and the current entry's marker does not list its id.
QuietClosed(s) == mounted[s] /\ IsDefault(s) /\ canUseBrowser /\ CommittedClosed(s) /\ NothingPending

C10_MarkerTransient ==
  \A s \in Sessions :
    QuietClosed(s) => Owned(s) = {} /\ ~Includes(CurrentKeys(hist[pos]), s)

\* The calls an instance makes and the run of its effects.
OwnNames == {"open", "close", "toggle", "commit"}

\* C11 (as claimed): of two instances that do not coordinate, no step that
\* one takes on its own account (open, close, toggle, its effects, the
\* traversal of its history.back() and the popstate of it) changes the
\* other's isOpen or removes an entry the other pushed from the entries up to
\* the current position.
C11_Independent ==
  [][\A s, t \in Sessions :
       ( /\ s # t /\ mounted[s] /\ mounted[t]
         /\ ~opts[s].autoCloseOthersOnOpen /\ ~opts[t].autoCloseOthersOnOpen
         /\ \/ lastAct'.s = s /\ lastAct'.name \in OwnNames
            \/ /\ lastAct'.name = "deliverBack"
               /\ backQueue # <<>> /\ Head(backQueue) = s )
       => /\ isOpen'[t] = isOpen[t]
          /\ {i \in 1..pos' : hist'[i].owner = t} = Owned(t)
    ]_vars

\* Everything but the observers and the mounted flags.
ProgramState ==
  <<hist, pos, backQueue, canUseBrowser, opts, isOpen, rendered, Refs>>

\* C13: unmounting calls neither pushState nor history.back() and leaves the
\* history, the position and the pending traversals as they are, so an entry
\* the instance owns stays; unmounting again changes nothing; and an
\* unmounted instance makes no history call and no state-holder call.
C13_UnmountOnlyDetaches ==
  [][\A s \in Sessions :
       /\ lastAct' = [name |-> "unmount", s |-> s]
          => /\ histCalls' = {} /\ setCalls' = {}
             /\ UNCHANGED ProgramState
             /\ ~mounted'[s]
             /\ ~mounted[s] => UNCHANGED mounted
       /\ ~mounted[s]
          => /\ \A c \in histCalls' : c.by # s
             /\ \A c \in setCalls' : c.by # s
             /\ hasHistoryEntry'[s] = hasHistoryEntry[s]
    ]_vars

\* An open instance that owns the current entry has just been unmounted.
C13_Witness ==
  /\ lastAct = [name |-> "unmount", s |-> "A"]
  /\ isOpen["A"] /\ hasHistoryEntry["A"] /\ opts["A"].cleanupOnClose
  /\ hist[pos].owner = "A"

\* The step dispatches a popstate event.
PopStateDispatched ==
  \/ lastAct'.name \in {"userBack", "userForward"}
  \/ lastAct'.name = "deliverBack" /\ pos' # pos

\* C14 (as claimed): shouldIgnorePopState becomes true only in a step in
\* which the instance calls history.back(); the next popstate event resets
\* it, so it is false after every popstate; and no back press of the user
\* finds it true in an instance that listens.
C14_IgnoreFlagTransient ==
  [][\A s \in Sessions :
       /\ (~shouldIgnorePopState[s] /\ shouldIgnorePopState'[s])
          => [op |-> "back", by |-> s] \in histCalls'
       /\ (mounted[s] /\ PopStateDispatched) => ~shouldIgnorePopState'[s]
       /\ (lastAct'.name = "userBack" /\ Listening(s)) => ~shouldIgnorePopState[s]
    ]_vars

\* The steps in which the effects of an instance run.
SyncNames == {"commit", "setOptions"}

C16_FlagMatchesStack ==
  NothingPending =>
    \A s \in Sessions :
      (mounted[s] /\ canUseBrowser /\ IsDefault(s))
      => (hasHistoryEntry[s] <=> Owned(s) # {})

\* C17 (as claimed): when the effects of an instance run with isOpen true
\* while hasHistoryEntry is true, they make no history call and leave
\* hasHistoryEntry true.
C17_OwnedOpenIsNoOp ==
  [][\A s \in Sessions :
       ( /\ lastAct' \in [name : SyncNames, s : {s}]
         /\ isOpen[s] /\ hasHistoryEntry[s] )
       => /\ histCalls' = {}
          /\ hasHistoryEntry'[s]
    ]_vars

\* C18 (as claimed): when open() of a coordinating instance has delivered its
\* broadcast, the instance is open and has pushed its entry: the marker of
\* the current entry, which a receiver reads during the broadcast, lists the
\* opener's id.
C18_PushBeforeBroadcast ==
  [][\A s \in Sessions :
       (lastAct' = [name |-> "open", s |-> s] /\ Broadcasts(s))
       => /\ isOpen'[s]
          /\ Includes(CurrentKeys(hist'[pos']), s)
    ]_vars

\* C19: from the render that sets enabled to false on, and for as long as
\* enabled stays false, the instance makes no history call and no
\* state-holder call and its refs stay as they are, whatever is requested
\* and whatever popstate arrives: an entry it owns is not popped by it, and
\* only a traversal moves the current position.
C19_DisabledKeepsEntry ==
  [][\A s \in Sessions :
       (mounted[s] /\ ~opts'[s].enabled)
       => /\ \A c \in histCalls' : c.by # s
          /\ \A c \in setCalls' : c.by # s
          /\ hasHistoryEntry'[s] = hasHistoryEntry[s]
          /\ shouldIgnorePopState'[s] = shouldIgnorePopState[s]
          /\ closedByBackButton'[s] = closedByBackButton[s]
          /\ lastAct'.s = s => (hist' = hist /\ pos' = pos /\ backQueue' = backQueue)
    ]_vars

\* An instance that was disabled while open and owning the current entry has
\* been closed and its effects have run: the entry is still there.
C19_Witness ==
  /\ lastAct = [name |-> "commit", s |-> "A"]
  /\ ~opts["A"].enabled /\ opts["A"].cleanupOnClose
  /\ ~isOpen["A"] /\ hasHistoryEntry["A"]
  /\ hist[pos].owner = "A" /\ backQueue = <<>>

\* C20 (as claimed): in both forms, a popstate that reaches an instance that
\* is open and owns no entry, and that is not the echo of its own
\* history.back(), is ignored: isOpen and closedByBackButton stay as they are
\* and the state holder is not called.
C20_NoEntryIgnoresBack ==
  [][\A s \in Sessions :
       ( /\ lastAct'.name \in PopNames /\ pos' # pos
         /\ Listening(s) /\ isOpen[s] /\ rendered[s].isOpen
         /\ ~hasHistoryEntry[s] /\ ~shouldIgnorePopState[s] )
       => /\ isOpen'[s]
          /\ closedByBackButton'[s] = closedByBackButton[s]
          /\ \A c \in setCalls' : c.by # s
    ]_vars

\* C12 (as claimed): the two forms are equivalent for one instance.  Both run
\* the same sync effect and differ in handlePopState only, so they stay in
\* step exactly if, from every state a useModalToggle instance reaches,
\* useModalBackButton's handler leaves the same isOpen, shouldIgnorePopState
\* and closedByBackButton as the step the useModalToggle instance takes.
C12_FormsAgree ==
  [][\A s \in Sessions :
       ( /\ opts[s].form = "toggle" /\ ~opts[s].autoCloseOthersOnOpen
         /\ Listening(s) /\ PopStateDispatched )
       => LET r == HandlePopStateBackButton(shouldIgnorePopState[s], rendered[s].isOpen)
          IN /\ isOpen'[s] = (IF r.close THEN FALSE ELSE isOpen[s])
             /\ shouldIgnorePopState'[s] = r.ignore
             /\ closedByBackButton'[s] = (r.close \/ closedByBackButton[s])
    ]_vars

\* C21 (as claimed): the sync effect of a useModalToggle instance never
\* fails, and the entry it pushes carries the payload of the entry that was
\* current with the unrelated fields as they were and __rmbb replaced by the
\* existing keys (none when there is no payload or no __rmbb record of the
\* list form) followed by the instance's id.
C21_MarkerMerged ==
  [][\A c \in histCalls' :
       opts[c.by].form = "toggle"
       => /\ c.op # "throws"
          /\ c.op = "pushState"
             => /\ pos' = pos + 1 /\ Len(hist') = pos'
                /\ SubSeq(hist', 1, pos) = SubSeq(hist, 1, pos)
                /\ hist'[pos'].app = hist[pos].app
                /\ hist'[pos'].kind = "keys"
                /\ hist'[pos'].keys =
                     (IF hist[pos].kind = "keys" THEN hist[pos].keys ELSE <<>>)
                       \o <<c.by>>
    ]_vars

\* The instance takes part in the coordination: its 'rmbb:modal-open'
\* listener is registered.
Participating(s) ==
  /\ mounted[s] /\ canUseBrowser /\ opts[s].form = "toggle"
  /\ opts[s].enabled /\ opts[s].autoCloseOthersOnOpen

\* C22: when open() of x broadcasts, every other participating instance is
\* set closed, which for one that is closed already leaves nothing for its
\* effects to do; x itself is open; every instance that is disabled or does
\* not coordinate keeps its isOpen and its holder is not called; nobody's
\* refs change and no history call is made.
C22_BroadcastFrame ==
  [][\A x \in Sessions :
       (lastAct' = [name |-> "open", s |-> x] /\ Broadcasts(x))
       => /\ histCalls' = {} /\ UNCHANGED <<History, Refs, rendered>>
          /\ isOpen'[x] /\ \A c \in setCalls' : c.by # x
          /\ \A t \in Sessions \ {x} :
               IF Participating(t)
               THEN /\ ~isOpen'[t]
                    /\ (~isOpen[t] /\ Deps(t) = rendered[t])
                       => (Deps(t))' = rendered'[t]
               ELSE /\ isOpen'[t] = isOpen[t]
                    /\ \A c \in setCalls' : c.by # t
    ]_vars

\* B's open() has just closed A, which was open with an entry owned.
C22_Witness ==
  /\ lastAct = [name |-> "open", s |-> "B"]
  /\ setCalls = {[by |-> "A", val |-> FALSE]}
  /\ ~isOpen["A"] /\ rendered["A"].isOpen /\ hasHistoryEntry["A"]
  /\ isOpen["B"]

\* C23 (as claimed): the traversal of a history.back() that an instance
\* called leaves an entry that this instance pushed: the position never
\* moves below an entry of the application, or of another instance, as a
\* result of the instance's history.back().
C23_PopsOwnEntryOnly ==
  [][( /\ lastAct'.name = "deliverBack" /\ backQueue # <<>>
       /\ Head(backQueue) \in Sessions /\ pos' # pos )
     => hist[pos].owner = Head(backQueue)
    ]_vars

\* Instance s is open, rendered open, and owns by its flag the entry e.
OpenOn(s, e) ==
  /\ mounted[s] /\ opts[s].form = "toggle" /\ IsDefault(s)
  /\ isOpen[s] /\ rendered[s].isOpen /\ hasHistoryEntry[s]
  /\ e \in 1..pos /\ hist[e].owner = s

\* C24 (as claimed): with A open and B opened after it, so that B's entry is
\* current and lies on A's, a back press of the user closes B and leaves A
\* open with its entry owned and current; and with only A open on the current
\* entry, a back press of the user closes A.
C24_NestedCloseLifo ==
  [][(lastAct'.name = "userBack" /\ NothingPending /\ pos > 1)
     => /\ (OpenOn("A", pos - 1) /\ OpenOn("B", pos))
           => /\ ~isOpen'["B"] /\ closedByBackButton'["B"]
              /\ isOpen'["A"] /\ hasHistoryEntry'["A"]
              /\ pos' = pos - 1
        /\ (OpenOn("A", pos) /\ CommittedClosed("B") /\ ~hasHistoryEntry["B"])
           => ~isOpen'["A"] /\ closedByBackButton'["A"]
    ]_vars

\* C25 (as claimed): the keys of the marker of every entry on the stack list
\* each id at most once.
C25_KeysDistinct ==
  \A e \in 1..Len(hist) :
    \A i, j \in 1..Len(hist[e].keys) :
      hist[e].keys[i] = hist[e].keys[j] => i = j
====
